---- MODULE Spec2Model ----
(***************************************************************************)
(* A model of the rate limiters of rajeev117/api-rate-limiter.             *)
(*                                                                         *)
(* One limiter object is constructed (kind says which class) and a set of  *)
(* threads call its check method.  Time is counted in milliseconds; the    *)
(* token bucket's float token counts are kept in thousandths of a token,   *)
(* so that delta_seconds * refill_rate (tokens) is exactly                 *)
(* delta_ms * refill_rate (thousandths) and float rounding plays no part.  *)
(***************************************************************************)
EXTENDS Integers, Sequences, FiniteSets, TLC

\* ------------------------------------------------------------------ bounds
MaxNow == 2
MaxCalls == 3
MaxSeqCalls == 4
MaxRedisCalls == 2
MaxRetryMs == 2001
MaxWindowCalls == 4
MaxLiveCalls == 3

\* --------------------------------------------------------- program constants
\* the factor between seconds and milliseconds (tokens and thousandths)
Milli == 1000

Threads == {1, 2}
Procs == {1, 2}
Times == 0..MaxNow
Keys == {"a", "b"}
NoThread == 0
NoLock == 0

\* configurations the limiters are constructed with
NoConfig == [capacity |-> 0, refill_rate |-> 0, window_size_ms |-> 0,
             max_requests |-> 0, fail_open |-> FALSE]
TBConfigs ==
    {[NoConfig EXCEPT !.capacity = 2, !.refill_rate = 0],
     [NoConfig EXCEPT !.capacity = 1, !.refill_rate = 500]}
SWConfigs ==
    {[NoConfig EXCEPT !.window_size_ms = 2, !.max_requests = m] : m \in {1, 2}}
RedisTBConfigs ==
    {[NoConfig EXCEPT !.capacity = 1, !.refill_rate = 500, !.fail_open = f]
        : f \in BOOLEAN}
RedisSWConfigs ==
    {[NoConfig EXCEPT !.window_size_ms = 2, !.max_requests = 1, !.fail_open = f]
        : f \in BOOLEAN}
Weights == {1, 2}
RedisWeights == {1}

\* the wider choice of configurations for non-overlapping calls
SeqTBConfigs ==
    {[NoConfig EXCEPT !.capacity = c, !.refill_rate = r]
        : c \in {1, 2, 3}, r \in {0, 500, 1000}}
SeqSWConfigs ==
    {[NoConfig EXCEPT !.window_size_ms = ws, !.max_requests = m]
        : ws \in {1, 2}, m \in {1, 2}}

VARIABLES
    kind,       \* the class of the limiter object: "tb", "sw" (in-process),
                \* "rtb", "rsw" (Redis token bucket, Redis sliding window)
    cfg,        \* self._cfg, and self._redis_cfg.fail_open
    sha,        \* self._script.sha is not None, per process
    loaded,     \* the Redis server's script cache holds the script
    clock,      \* the last value the monotonic clock returned, in ms
    calls,      \* check calls started so far
    pc,         \* where each thread is inside check
    key,        \* check's argument key, per thread
    tokens,     \* check's argument tokens, per thread
    now,        \* check's local now / now_ms, per thread
    lk,         \* the lock lock_for returned to the thread
    guard,      \* KeyedLock._guard: the thread holding it
    locks,      \* KeyedLock._locks: key -> lock
    owner,      \* the threading.Lock objects created: lock -> holding thread
    stored,     \* TokenBucketLimiter.check's local stored, per thread
    res,        \* the RateLimitResult check is about to return, per thread
    state,      \* self._state: key -> stored value; for the Redis limiters,
                \* the store: key -> hash or sorted set
    hist,       \* per key, a summary of the decisions made so far
    log,        \* per key, the decisions of non-overlapping calls, in order
    path,       \* per thread, the answered calls of its check to Redis, from
                \* the evalsha on
    made,       \* how the limiter's constructor ended
    proc,       \* the process (limiter instance) each thread runs in
    failure_mode, \* settings.failure_mode of the HTTP application
    resp        \* the HTTP response limited() is about to send, per thread

locals == <<pc, key, tokens, now, lk, stored, res, path, resp>>
fixed == <<made, proc, failure_mode>>
vars == <<kind, cfg, sha, loaded, clock, calls, pc, key, tokens, now, lk, stored, res,
          guard, locks, owner, state, hist, log, path, made, proc, failure_mode, resp>>

\* ------------------------------------------------------------------ values
Max(a, b) == IF a >= b THEN a ELSE b
Min(a, b) == IF a <= b THEN a ELSE b

\* math.ceil(a / b) for a >= 0, b > 0
CeilDiv(a, b) == (a + b - 1) \div b

\* RateLimitResult.remaining: a float, possibly float("inf")
Fin(v) == [inf |-> FALSE, v |-> v]
Inf == [inf |-> TRUE, v |-> 0]

\* dict.get(key) is None
Absent == [has |-> FALSE]

\* ------------------------------------------------------- TokenBucketLimiter
\* lines 30-35: the stored pair, or (capacity, now) for a new key
TBLoad(st, n) ==
    IF st.has
        THEN [tokens |-> st.tokens, ts |-> st.ts]
        ELSE [tokens |-> cfg.capacity * Milli, ts |-> n]

\* TBRefill without the cap at capacity
TBRefillUncapped(cur, n) ==
    LET delta == Max(0, n - cur.ts)
        refill == delta * cfg.refill_rate
    IN  IF refill > 0
            THEN [tokens |-> cur.tokens + refill, ts |-> n]
            ELSE cur

\* TBRefill that never moves ts forward
TBRefillKeepTs(cur, n) ==
    LET delta == Max(0, n - cur.ts)
        refill == delta * cfg.refill_rate
    IN  IF refill > 0
            THEN [tokens |-> Min(cfg.capacity * Milli, cur.tokens + refill), ts |-> cur.ts]
            ELSE cur

\* TBRefill that credits the distance between now and ts in either direction
TBRefillEitherWay(cur, n) ==
    LET delta == Max(n - cur.ts, cur.ts - n)
        refill == delta * cfg.refill_rate
    IN  IF refill > 0
            THEN [tokens |-> Min(cfg.capacity * Milli, cur.tokens + refill), ts |-> n]
            ELSE cur

\* lines 37-41: refill for the time since ts
TBRefill(cur, n) ==
    LET delta == Max(0, n - cur.ts)
        refill == delta * cfg.refill_rate
    IN  IF refill > 0
            THEN [tokens |-> Min(cfg.capacity * Milli, cur.tokens + refill), ts |-> n]
            ELSE cur

\* TBDecision with the operands of missing swapped
TBDecisionSwapped(cur, w) ==
    LET allowed == cur.tokens >= w * Milli
        missing == cur.tokens - w * Milli
    IN  [allowed |-> allowed,
         tokens |-> IF allowed THEN cur.tokens - w * Milli ELSE cur.tokens,
         ts |-> cur.ts,
         retry_after_ms |->
            IF ~allowed /\ cfg.refill_rate > 0
                THEN CeilDiv(missing, cfg.refill_rate)
                ELSE 0]

\* TBDecision that charges a denied request too, down to an empty bucket
TBDecisionCharging(cur, w) ==
    LET allowed == cur.tokens >= w * Milli
        missing == w * Milli - cur.tokens
    IN  [allowed |-> allowed,
         tokens |-> Max(0, cur.tokens - w * Milli),
         ts |-> cur.ts,
         retry_after_ms |->
            IF ~allowed /\ cfg.refill_rate > 0
                THEN CeilDiv(missing, cfg.refill_rate)
                ELSE 0]

\* lines 43-50: the decision on the refilled bucket
TBDecision(cur, w) ==
    LET allowed == cur.tokens >= w * Milli
        missing == w * Milli - cur.tokens
    IN  [allowed |-> allowed,
         tokens |-> IF allowed THEN cur.tokens - w * Milli ELSE cur.tokens,
         ts |-> cur.ts,
         retry_after_ms |->
            IF ~allowed /\ cfg.refill_rate > 0
                THEN CeilDiv(missing, cfg.refill_rate)
                ELSE 0]

\* lines 30-59: the body of check under the key's lock
TBCompute(st, n, w) == TBDecision(TBRefill(TBLoad(st, n), n), w)

\* ----------------------------------------------------- SlidingWindowLimiter
\* SWPrune that keeps an entry exactly at the cutoff
RECURSIVE SWPruneStrict(_, _)
SWPruneStrict(q, cutoff) ==
    IF q # <<>> /\ Head(q) < cutoff THEN SWPruneStrict(Tail(q), cutoff) ELSE q

\* lines 87-88: while q and q[0] <= cutoff: q.popleft()
RECURSIVE SWPrune(_, _)
SWPrune(q, cutoff) ==
    IF q # <<>> /\ Head(q) <= cutoff THEN SWPrune(Tail(q), cutoff) ELSE q

\* lines 79-88: the key's deque, created when missing, pruned in place
SWPruned(st, n) ==
    [has |-> TRUE, q |-> SWPrune(IF st.has THEN st.q ELSE <<>>, n - cfg.window_size_ms)]

\* SWDecision that measures retry_after_ms from the newest entry
SWDecisionNewest(q, n) ==
    IF Len(q) < cfg.max_requests
        THEN [allowed |-> TRUE,
              q |-> Append(q, n),
              remaining |-> cfg.max_requests - (Len(q) + 1),
              retry_after_ms |-> 0]
        ELSE [allowed |-> FALSE,
              q |-> q,
              remaining |-> 0,
              retry_after_ms |-> Max(0, cfg.window_size_ms - (n - q[Len(q)]))]

\* lines 90-115: admit and append, or deny
SWDecision(q, n) ==
    IF Len(q) < cfg.max_requests
        THEN [allowed |-> TRUE,
              q |-> Append(q, n),
              remaining |-> cfg.max_requests - (Len(q) + 1),
              retry_after_ms |-> 0]
        ELSE [allowed |-> FALSE,
              q |-> q,
              remaining |-> 0,
              retry_after_ms |-> Max(0, cfg.window_size_ms - (n - Head(q)))]

\* ------------------------------------------------------------------ ghosts
\* the summary of a key's decisions: how many, how many allowed, whether all
\* had weight 1, the now the latest one used
NoHist == [n |-> 0, ok |-> 0, unit |-> TRUE, last_now |-> 0]

Record(h, n, w, allowed) ==
    [n |-> h.n + 1,
     ok |-> h.ok + (IF allowed THEN 1 ELSE 0),
     unit |-> h.unit /\ w = 1,
     last_now |-> n]

\* a RateLimitResult; mode and error are metadata["mode"], metadata["error"]
Result(allowed, remaining, retry_after_ms, mode, error) ==
    [allowed |-> allowed, remaining |-> remaining,
     retry_after_ms |-> retry_after_ms, mode |-> mode, error |-> error]

NoResult == Result(FALSE, Fin(0), 0, "none", "")

\* -------------------------------------------------------------------- Init
\* no HTTP response built yet
NoResponse == [status |-> 0, mode |-> "", error |-> "", retry_after_ms |-> 0,
               retry_after |-> <<>>, tokens_left |-> Fin(0)]

\* nothing has been called yet: the object's fields as the constructors leave
\* them, no thread inside a call
Blank ==
    /\ sha = [p \in Procs |-> FALSE]
    /\ loaded = FALSE
    /\ clock = 0
    /\ calls = 0
    /\ pc = [t \in Threads |-> "idle"]
    /\ key = [t \in Threads |-> "a"]
    /\ tokens = [t \in Threads |-> 1]
    /\ now = [t \in Threads |-> 0]
    /\ lk = [t \in Threads |-> NoLock]
    /\ stored = [t \in Threads |-> Absent]
    /\ res = [t \in Threads |-> NoResult]
    /\ path = [t \in Threads |-> <<>>]
    /\ resp = [t \in Threads |-> NoResponse]
    /\ guard = NoThread
    /\ locks = [k \in Keys |-> NoLock]
    /\ owner = <<>>
    /\ state = [k \in Keys |-> Absent]
    /\ hist = [k \in Keys |-> NoHist]
    /\ log = [k \in Keys |-> <<>>]

\* the state after the limiter's constructor, for a choice of configurations;
\* the threads all run in one process
Start(kinds, tbs, sws) ==
    /\ kind \in kinds
    /\ cfg \in (IF kind \in {"tb", "rtb"} THEN tbs ELSE sws)
    /\ made = "ok"
    /\ proc = [t \in Threads |-> 1]
    /\ failure_mode = "fail_open"
    /\ Blank

Init == Start({"tb", "sw"}, TBConfigs, SWConfigs)

\* ----------------------------------------------------------------- actions
\* TokenBucketLimiter.check, line 28: time.monotonic() returns n, no less than
\* any value it returned before; the clock is read before the lock is taken
TBChecks(t, k, w, n, budget) ==
    /\ kind = "tb"
    /\ pc[t] = "idle"
    /\ calls < budget
    /\ w > 0
    /\ n >= clock
    /\ clock' = n
    /\ calls' = calls + 1
    /\ key' = [key EXCEPT ![t] = k]
    /\ tokens' = [tokens EXCEPT ![t] = w]
    /\ now' = [now EXCEPT ![t] = n]
    /\ pc' = [pc EXCEPT ![t] = "lock_for"]
    /\ UNCHANGED <<kind, cfg, sha, loaded, lk, stored, res, guard, locks, owner, state, hist, log,
                   path, resp, fixed>>

TBCheck(t, k, w, n) == TBChecks(t, k, w, n, MaxCalls)

\* SlidingWindowLimiter.check, lines 78-79: time.monotonic_ns() // 1_000_000
\* is n, read before the lock is taken
SWChecks(t, k, n, budget) ==
    /\ kind = "sw"
    /\ pc[t] = "idle"
    /\ calls < budget
    /\ n >= clock
    /\ clock' = n
    /\ calls' = calls + 1
    /\ key' = [key EXCEPT ![t] = k]
    /\ now' = [now EXCEPT ![t] = n]
    /\ pc' = [pc EXCEPT ![t] = "lock_for"]
    /\ UNCHANGED <<kind, cfg, sha, loaded, tokens, lk, stored, res, guard, locks, owner, state,
                   hist, log,
                   path, resp, fixed>>

SWCheck(t, k, n) == SWChecks(t, k, n, MaxCalls)

\* KeyedLock.lock_for, lines 18-19: take the guard, lock = self._locks.get(key)
LockForEnter(t) ==
    /\ pc[t] = "lock_for"
    /\ guard = NoThread
    /\ guard' = t
    /\ lk' = [lk EXCEPT ![t] = locks[key[t]]]
    /\ pc' = [pc EXCEPT ![t] = "in_guard"]
    /\ UNCHANGED <<kind, cfg, sha, loaded, clock, calls, key, tokens, now, stored, res,
                   locks, owner, state, hist, log,
                   path, resp, fixed>>

\* LockFor that makes a new lock on every call
LockForFresh(found, k) ==
    [lock |-> Len(owner) + 1,
     locks |-> [locks EXCEPT ![k] = Len(owner) + 1],
     owner |-> Append(owner, NoThread)]

\* LockFor with one lock for all the keys
LockForShared(found, k) ==
    [lock |-> 1,
     locks |-> [locks EXCEPT ![k] = 1],
     owner |-> IF owner = <<>> THEN <<NoThread>> ELSE owner]

\* KeyedLock.lock_for, lines 20-22: a lock found is returned, a missing one is
\* created and put in the map
LockFor(found, k) ==
    IF found = NoLock
        THEN [lock |-> Len(owner) + 1,
              locks |-> [locks EXCEPT ![k] = Len(owner) + 1],
              owner |-> Append(owner, NoThread)]
        ELSE [lock |-> found, locks |-> locks, owner |-> owner]

\* KeyedLock.lock_for, lines 20-23: create the lock when missing, leave the guard
LockForReturn(t) ==
    /\ pc[t] = "in_guard"
    /\ LET r == LockFor(lk[t], key[t])
       IN  /\ lk' = [lk EXCEPT ![t] = r.lock]
           /\ locks' = r.locks
           /\ owner' = r.owner
    /\ guard' = NoThread
    /\ pc' = [pc EXCEPT ![t] = "acquire"]
    /\ UNCHANGED <<kind, cfg, sha, loaded, clock, calls, key, tokens, now, stored, res, state,
                   hist, log,
                   path, resp, fixed>>

\* a lock that excludes nobody
CanAcquireAlways(l) == l # NoLock

\* threading.Lock.acquire returns once the lock is free
CanAcquire(l) == owner[l] = NoThread

\* TokenBucketLimiter.check, lines 29-30: enter the with block (acquire the
\* key's lock), stored = self._state.get(key)
TBEnter(t) ==
    /\ kind = "tb"
    /\ pc[t] = "acquire"
    /\ CanAcquire(lk[t])
    /\ owner' = [owner EXCEPT ![lk[t]] = t]
    /\ stored' = [stored EXCEPT ![t] = state[key[t]]]
    /\ pc' = [pc EXCEPT ![t] = "decide"]
    /\ UNCHANGED <<kind, cfg, sha, loaded, clock, calls, key, tokens, now, lk, res, guard,
                   locks, state, hist, log,
                   path, resp, fixed>>

\* TokenBucketLimiter.check, lines 31-59: decide, store the pair, build the result
TBDecides(t, l) ==
    /\ kind = "tb"
    /\ pc[t] = "decide"
    /\ LET d == TBCompute(stored[t], now[t], tokens[t])
       IN  /\ state' = [state EXCEPT ![key[t]] =
                            [has |-> TRUE, tokens |-> d.tokens, ts |-> d.ts]]
           /\ res' = [res EXCEPT ![t] =
                            Result(d.allowed, Fin(d.tokens), d.retry_after_ms,
                                   "none", "")]
           /\ hist' = [hist EXCEPT ![key[t]] = Record(@, now[t], tokens[t], d.allowed)]
    /\ log' = l
    /\ pc' = [pc EXCEPT ![t] = "release"]
    /\ UNCHANGED <<kind, cfg, sha, loaded, clock, calls, key, tokens, now, lk, stored, guard,
                   locks, owner,
                   path, resp, fixed>>

TBDecide(t) == TBDecides(t, log)

\* the same, with the call's now, weight and decision added to the key's log
TBDecideLogged(t) ==
    TBDecides(t, [log EXCEPT ![key[t]] =
                    Append(@, [now |-> now[t], tokens |-> tokens[t],
                               allowed |-> TBCompute(stored[t], now[t],
                                                     tokens[t]).allowed])])

\* SlidingWindowLimiter.check, lines 81-88: enter the with block (acquire the
\* key's lock), get or create the deque, prune it
SWEnter(t) ==
    /\ kind = "sw"
    /\ pc[t] = "acquire"
    /\ CanAcquire(lk[t])
    /\ owner' = [owner EXCEPT ![lk[t]] = t]
    /\ state' = [state EXCEPT ![key[t]] = SWPruned(@, now[t])]
    /\ pc' = [pc EXCEPT ![t] = "decide"]
    /\ UNCHANGED <<kind, cfg, sha, loaded, clock, calls, key, tokens, now, lk, stored, res,
                   guard, locks, hist, log,
                   path, resp, fixed>>

\* SlidingWindowLimiter.check, lines 90-115: admit and append, or deny
SWDecides(t, l) ==
    /\ kind = "sw"
    /\ pc[t] = "decide"
    /\ LET d == SWDecision(state[key[t]].q, now[t])
       IN  /\ state' = [state EXCEPT ![key[t]] = [has |-> TRUE, q |-> d.q]]
           /\ res' = [res EXCEPT ![t] =
                            Result(d.allowed, Fin(d.remaining), d.retry_after_ms,
                                   "none", "")]
           /\ hist' = [hist EXCEPT ![key[t]] = Record(@, now[t], 1, d.allowed)]
    /\ log' = l
    /\ pc' = [pc EXCEPT ![t] = "release"]
    /\ UNCHANGED <<kind, cfg, sha, loaded, clock, calls, key, tokens, now, lk, stored, guard,
                   locks, owner,
                   path, resp, fixed>>

SWDecide(t) == SWDecides(t, log)

\* the same, with the now_ms of an allowed call added to the key's log
SWDecideLogged(t) ==
    SWDecides(t, [log EXCEPT ![key[t]] =
                    IF SWDecision(state[key[t]].q, now[t]).allowed
                        THEN Append(@, now[t]) ELSE @])

\* Release that leaves the key's lock held when the call was denied
ReleaseAllowedOnly(t) ==
    /\ pc[t] = "release"
    /\ owner' = IF res[t].allowed THEN [owner EXCEPT ![lk[t]] = NoThread] ELSE owner
    /\ pc' = [pc EXCEPT ![t] = "idle"]
    /\ key' = [key EXCEPT ![t] = "a"]
    /\ tokens' = [tokens EXCEPT ![t] = 1]
    /\ now' = [now EXCEPT ![t] = 0]
    /\ lk' = [lk EXCEPT ![t] = NoLock]
    /\ stored' = [stored EXCEPT ![t] = Absent]
    /\ res' = [res EXCEPT ![t] = NoResult]
    /\ UNCHANGED <<kind, cfg, sha, loaded, clock, calls, guard, locks, state, hist, log,
                   path, resp, fixed>>

\* leaving the with block releases the key's lock; check returns its result
Release(t) ==
    /\ pc[t] = "release"
    /\ owner' = [owner EXCEPT ![lk[t]] = NoThread]
    /\ pc' = [pc EXCEPT ![t] = "idle"]
    /\ key' = [key EXCEPT ![t] = "a"]
    /\ tokens' = [tokens EXCEPT ![t] = 1]
    /\ now' = [now EXCEPT ![t] = 0]
    /\ lk' = [lk EXCEPT ![t] = NoLock]
    /\ stored' = [stored EXCEPT ![t] = Absent]
    /\ res' = [res EXCEPT ![t] = NoResult]
    /\ UNCHANGED <<kind, cfg, sha, loaded, clock, calls, guard, locks, state, hist, log,
                   path, resp, fixed>>

Next ==
    \/ \E t \in Threads, k \in Keys, w \in Weights, n \in Times : TBCheck(t, k, w, n)
    \/ \E t \in Threads, k \in Keys, n \in Times : SWCheck(t, k, n)
    \/ \E t \in Threads : LockForEnter(t)
    \/ \E t \in Threads : LockForReturn(t)
    \/ \E t \in Threads : TBEnter(t)
    \/ \E t \in Threads : TBDecide(t)
    \/ \E t \in Threads : SWEnter(t)
    \/ \E t \in Threads : SWDecide(t)
    \/ \E t \in Threads : Release(t)

Spec == Init /\ [][Next]_vars

\* the steps of a call that thread t has started
Step(t) ==
    \/ LockForEnter(t)
    \/ LockForReturn(t)
    \/ TBEnter(t)
    \/ TBDecide(t)
    \/ SWEnter(t)
    \/ SWDecide(t)
    \/ Release(t)

\* the in-process limiters under a scheduler that does not leave a thread
\* that can take a step waiting forever
LiveTBConfigs == {[NoConfig EXCEPT !.capacity = 1, !.refill_rate = 500]}
LiveSWConfigs == {[NoConfig EXCEPT !.window_size_ms = 2, !.max_requests = 1]}

LiveInit == Start({"tb", "sw"}, LiveTBConfigs, LiveSWConfigs)

LiveNext ==
    \/ \E t \in Threads, k \in Keys, n \in Times :
            TBChecks(t, k, 1, n, MaxLiveCalls)
    \/ \E t \in Threads, k \in Keys, n \in Times :
            SWChecks(t, k, n, MaxLiveCalls)
    \/ \E t \in Threads : Step(t)

FairSpec == LiveInit /\ [][LiveNext]_vars /\ \A t \in Threads : WF_vars(Step(t))

\* TokenBucketLimiter.check called by two threads, every decision logged
BucketConfigs ==
    {[NoConfig EXCEPT !.capacity = c, !.refill_rate = r]
        : c \in {1, 2}, r \in {0, 500, 1000}}

BucketKeys == {"a"}

BucketInit == Start({"tb"}, BucketConfigs, {})

BucketNext ==
    \/ \E t \in Threads, k \in BucketKeys, w \in Weights, n \in Times :
            TBCheck(t, k, w, n)
    \/ \E t \in Threads : LockForEnter(t)
    \/ \E t \in Threads : LockForReturn(t)
    \/ \E t \in Threads : TBEnter(t)
    \/ \E t \in Threads : TBDecideLogged(t)
    \/ \E t \in Threads : Release(t)

BucketSpec == BucketInit /\ [][BucketNext]_vars

\* SlidingWindowLimiter.check called by two threads on one key, up to
\* MaxWindowCalls times
WindowKeys == {"a"}

WindowInit == Start({"sw"}, {}, SWConfigs)

WindowNext ==
    \/ \E t \in Threads, k \in WindowKeys, n \in Times :
            SWChecks(t, k, n, MaxWindowCalls)
    \/ \E t \in Threads : LockForEnter(t)
    \/ \E t \in Threads : LockForReturn(t)
    \/ \E t \in Threads : SWEnter(t)
    \/ \E t \in Threads : SWDecideLogged(t)
    \/ \E t \in Threads : Release(t)

WindowSpec == WindowInit /\ [][WindowNext]_vars

\* -------------------------------------------------------- the Redis limiters
\* The scripts the Redis limiters run on the server.  Thousandths of a token,
\* so refill_per_ms = refill_rate / 1000 tokens is refill_rate thousandths.

\* token bucket: the hash {tokens, ts} of a key, ts written as now_ms
RedisTBScript(st, n, w) ==
    LET cur == IF st.has THEN st ELSE [tokens |-> cfg.capacity * Milli, ts |-> n]
        delta == Max(0, n - cur.ts)
        t == Min(cfg.capacity * Milli, cur.tokens + delta * cfg.refill_rate)
        allowed == t >= w * Milli
        left == IF allowed THEN t - w * Milli ELSE t
    IN  [allowed |-> allowed,
         remaining |-> left,
         retry_after_ms |->
            IF ~allowed /\ cfg.refill_rate > 0
                THEN CeilDiv(w * Milli - t, cfg.refill_rate)
                ELSE 0,
         st |-> [has |-> TRUE, tokens |-> left, ts |-> n]]

\* a sorted set's scores, in order, with one more
ZAdd(q, x) ==
    SelectSeq(q, LAMBDA y : y <= x) \o <<x>> \o SelectSeq(q, LAMBDA y : y > x)

\* sliding window: the sorted set of a key, scored by timestamp
RedisSWScript(st, n) ==
    LET q0 == IF st.has THEN st.q ELSE <<>>
        q == SelectSeq(q0, LAMBDA y : y > n - cfg.window_size_ms)
    IN  IF Len(q) < cfg.max_requests
            THEN [allowed |-> TRUE,
                  remaining |-> cfg.max_requests - (Len(q) + 1),
                  retry_after_ms |-> 0,
                  st |-> [has |-> TRUE, q |-> ZAdd(q, n)]]
            ELSE [allowed |-> FALSE,
                  remaining |-> 0,
                  retry_after_ms |-> Max(0, cfg.window_size_ms - (n - Head(q))),
                  st |-> [has |-> TRUE, q |-> q]]

\* the script of the limiter's class, run on the key of thread t's call
Script(t) ==
    IF kind = "rsw"
        THEN RedisSWScript(state[key[t]], now[t])
        ELSE RedisTBScript(state[key[t]], now[t], tokens[t])

\* the classes that keep their state in Redis: the two Redis limiters and the
\* HTTP application's RedisTokenBucket
RedisKinds == {"rtb", "rsw", "app"}

\* how a call to the Redis client ends: it returns, or it raises
\* redis.exceptions.ConnectionError or redis.exceptions.TimeoutError
Failures == {"ConnectionError", "TimeoutError"}
Outcomes == {"ok"} \cup Failures

\* redis_limiters.py lines 71-94 and 151-174: the result the fail_open flag
\* chooses when the handler catches exc
FailurePolicy(exc) ==
    IF cfg.fail_open
        THEN Result(TRUE, Inf, 0, "fail_open", exc)
        ELSE Result(FALSE, Fin(0), 0, "fail_closed", exc)

\* lines 96-101 and 176-181: the result built from the script's reply
Reply(d) == Result(d.allowed, Fin(d.remaining), d.retry_after_ms, "none", "")

\* an exception that leaves check
Raised(exc) == Result(FALSE, Fin(0), 0, "raised", exc)

\* lines 71 and 151: the except clause of the try statement catches exc when
\* it is raised in the try body; RedisTokenBucket.allow has no such clause
Handled(exc) == kind # "app" /\ exc \in Failures

\* what an exception raised in the try body makes of the call
Caught(exc) == IF Handled(exc) THEN FailurePolicy(exc) ELSE Raised(exc)

\* one call to the Redis client that was answered (with a reply, or with
\* NoScriptError), as the check's path records it from the evalsha on
Call(name, out, reply) == [call |-> name, out |-> out, reply |-> reply]

\* check, lines 52-58 and 135-138: now_ms = int(time.time() * 1000) is n
\* (a wall clock that is not set back while the limiter runs)
RedisCheck(t, k, w, n) ==
    /\ kind \in {"rtb", "rsw"}
    /\ pc[t] = "idle"
    /\ calls < MaxRedisCalls
    /\ w > 0
    /\ n >= clock
    /\ clock' = n
    /\ calls' = calls + 1
    /\ key' = [key EXCEPT ![t] = k]
    /\ tokens' = [tokens EXCEPT ![t] = w]
    /\ now' = [now EXCEPT ![t] = n]
    /\ pc' = [pc EXCEPT ![t] = "try"]
    /\ UNCHANGED <<kind, cfg, sha, loaded, lk, stored, res, guard, locks, owner,
                   state, hist, log, path, resp, fixed>>

\* lines 61-62 and 141-142: no digest yet, script_load, inside the try body
RedisScriptLoad(t, out) ==
    /\ pc[t] = "try"
    /\ ~sha[proc[t]]
    /\ IF out = "ok"
          THEN /\ sha' = [sha EXCEPT ![proc[t]] = TRUE]
               /\ loaded' = TRUE
               /\ pc' = [pc EXCEPT ![t] = "evalsha"]
               /\ UNCHANGED res
          ELSE /\ res' = [res EXCEPT ![t] = Caught(out)]
               /\ pc' = [pc EXCEPT ![t] = IF Handled(out) THEN "return" ELSE "raised"]
               /\ UNCHANGED <<sha, loaded>>
    /\ UNCHANGED <<kind, cfg, clock, calls, key, tokens, now, lk, stored, guard,
                   locks, owner, state, hist, log, path, resp, fixed>>

\* RedisEvalsha whose answered call is followed by the eval all the same
RedisEvalshaRetried(t, out) ==
    /\ kind \in RedisKinds
    /\ pc[t] = "evalsha" \/ (pc[t] = "try" /\ sha[proc[t]])
    /\ out = "ok"
    /\ IF loaded
          THEN /\ state' = [state EXCEPT ![key[t]] = Script(t).st]
               /\ res' = [res EXCEPT ![t] = Reply(Script(t))]
               /\ path' = [path EXCEPT ![t] =
                            Append(@, Call("evalsha", out, Reply(Script(t))))]
          ELSE /\ path' = [path EXCEPT ![t] =
                            Append(@, Call("evalsha", "NoScriptError", NoResult))]
               /\ UNCHANGED <<state, res>>
    /\ pc' = [pc EXCEPT ![t] = "eval"]
    /\ UNCHANGED <<kind, cfg, sha, loaded, clock, calls, key, tokens, now, lk,
                   stored, guard, locks, owner, hist, log, resp, fixed>>

\* lines 63-65 and 143-145: evalsha inside the try body; a server that does
\* not hold the script answers NoScriptError, handled on lines 66 and 146
RedisEvalsha(t, out) ==
    /\ kind \in RedisKinds
    /\ pc[t] = "evalsha" \/ (pc[t] = "try" /\ sha[proc[t]])
    /\ IF out = "ok"
          THEN IF loaded
                  THEN /\ state' = [state EXCEPT ![key[t]] = Script(t).st]
                       /\ res' = [res EXCEPT ![t] = Reply(Script(t))]
                       /\ path' = [path EXCEPT ![t] =
                                    Append(@, Call("evalsha", out, Reply(Script(t))))]
                       /\ pc' = [pc EXCEPT ![t] = "return"]
                  ELSE /\ pc' = [pc EXCEPT ![t] = "eval"]
                       /\ path' = [path EXCEPT ![t] =
                                    Append(@, Call("evalsha", "NoScriptError", NoResult))]
                       /\ UNCHANGED <<state, res>>
          ELSE /\ res' = [res EXCEPT ![t] = Caught(out)]
               /\ pc' = [pc EXCEPT ![t] = IF Handled(out) THEN "return" ELSE "raised"]
               /\ UNCHANGED <<state, path>>
    /\ UNCHANGED <<kind, cfg, sha, loaded, clock, calls, key, tokens, now, lk,
                   stored, guard, locks, owner, hist, log, resp, fixed>>

\* lines 67-69 and 147-149: eval by source, inside the NoScriptError handler;
\* the except clause of lines 71 and 151 does not cover a handler
RedisEval(t, out) ==
    /\ pc[t] = "eval"
    /\ IF out = "ok"
          THEN /\ state' = [state EXCEPT ![key[t]] = Script(t).st]
               /\ res' = [res EXCEPT ![t] = Reply(Script(t))]
               /\ path' = [path EXCEPT ![t] =
                            Append(@, Call("eval", out, Reply(Script(t))))]
               /\ pc' = [pc EXCEPT ![t] = "reload"]
          ELSE /\ res' = [res EXCEPT ![t] = Raised(out)]
               /\ pc' = [pc EXCEPT ![t] = "raised"]
               /\ UNCHANGED <<state, path>>
    /\ UNCHANGED <<kind, cfg, sha, loaded, clock, calls, key, tokens, now, lk,
                   stored, guard, locks, owner, hist, log, resp, fixed>>

\* RedisReload that returns the decision without loading the script again
RedisReloadSkipped(t, out) ==
    /\ pc[t] = "reload"
    /\ out = "ok"
    /\ pc' = [pc EXCEPT ![t] = "return"]
    /\ UNCHANGED <<kind, cfg, sha, loaded, clock, calls, key, tokens, now, lk, stored,
                   res, guard, locks, owner, state, hist, log, path, resp, fixed>>

\* lines 70 and 150: script_load again, still inside the handler
RedisReload(t, out) ==
    /\ pc[t] = "reload"
    /\ IF out = "ok"
          THEN /\ sha' = [sha EXCEPT ![proc[t]] = TRUE]
               /\ loaded' = TRUE
               /\ path' = [path EXCEPT ![t] = Append(@, Call("script_load", out, NoResult))]
               /\ pc' = [pc EXCEPT ![t] = "return"]
               /\ UNCHANGED res
          ELSE /\ res' = [res EXCEPT ![t] = Raised(out)]
               /\ pc' = [pc EXCEPT ![t] = "raised"]
               /\ UNCHANGED <<sha, loaded, path>>
    /\ UNCHANGED <<kind, cfg, clock, calls, key, tokens, now, lk, stored, guard,
                   locks, owner, state, hist, log, resp, fixed>>

\* check ends: it returns res, or the exception propagates to the caller;
\* h is the summary of the decisions returned on the key
RedisReturns(t, h) ==
    /\ kind \in {"rtb", "rsw"}
    /\ pc[t] \in {"return", "raised"}
    /\ pc' = [pc EXCEPT ![t] = "idle"]
    /\ key' = [key EXCEPT ![t] = "a"]
    /\ tokens' = [tokens EXCEPT ![t] = 1]
    /\ now' = [now EXCEPT ![t] = 0]
    /\ res' = [res EXCEPT ![t] = NoResult]
    /\ path' = [path EXCEPT ![t] = <<>>]
    /\ hist' = h
    /\ UNCHANGED <<kind, cfg, sha, loaded, clock, calls, lk, stored, guard, locks,
                   owner, state, log, resp, fixed>>

RedisReturn(t) == RedisReturns(t, hist)

\* the same, with the returned result added to the key's summary
RedisReturnCounted(t) ==
    RedisReturns(t, [hist EXCEPT ![key[t]] =
                        Record(@, now[t], tokens[t], res[t].allowed)])

\* the server loses its script cache (SCRIPT FLUSH, a restart): the cause of
\* the NoScriptError of lines 66 and 146
ScriptFlush ==
    /\ kind \in RedisKinds
    /\ loaded
    /\ loaded' = FALSE
    /\ UNCHANGED <<kind, cfg, sha, clock, calls, locals, guard, locks, owner,
                   state, hist, log, fixed>>

RedisNext ==
    \/ \E t \in Threads, k \in Keys, w \in RedisWeights, n \in Times :
            RedisCheck(t, k, w, n)
    \/ \E t \in Threads, out \in Outcomes : RedisScriptLoad(t, out)
    \/ \E t \in Threads, out \in Outcomes : RedisEvalsha(t, out)
    \/ \E t \in Threads, out \in Outcomes : RedisEval(t, out)
    \/ \E t \in Threads, out \in Outcomes : RedisReload(t, out)
    \/ \E t \in Threads : RedisReturn(t)
    \/ ScriptFlush

RedisInit == Start({"rtb", "rsw"}, RedisTBConfigs, RedisSWConfigs)

RedisSpec == RedisInit /\ [][RedisNext]_vars

\* any of the four limiters
AnyInit == Init \/ RedisInit

AnyNext == Next \/ RedisNext

AnySpec == AnyInit /\ [][AnyNext]_vars

\* --------------------------------------------------- non-overlapping calls
\* one whole check call, made while no other call is running

Entry(n, w, d, st) ==
    [now |-> n, tokens |-> w, allowed |-> d.allowed, remaining |-> d.remaining,
     retry_after_ms |-> d.retry_after_ms, st |-> st]

\* TokenBucketLimiter.check, lines 24-59, with KeyedLock.lock_for
SeqTBCheck(k, w, n) ==
    /\ kind = "tb"
    /\ calls < MaxSeqCalls
    /\ w > 0
    /\ n >= clock
    /\ clock' = n
    /\ calls' = calls + 1
    /\ LET r == LockFor(locks[k], k)
           d == TBCompute(state[k], n, w)
           st == [has |-> TRUE, tokens |-> d.tokens, ts |-> d.ts]
       IN  /\ locks' = r.locks
           /\ owner' = r.owner
           /\ state' = [state EXCEPT ![k] = st]
           /\ log' = [log EXCEPT ![k] = Append(@,
                        Entry(n, w, [allowed |-> d.allowed,
                                     remaining |-> Fin(d.tokens),
                                     retry_after_ms |-> d.retry_after_ms], st))]
    /\ UNCHANGED <<kind, cfg, sha, loaded, locals, guard, hist,
                   fixed>>

\* SlidingWindowLimiter.check, lines 77-115, with KeyedLock.lock_for
SeqSWCheck(k, n) ==
    /\ kind = "sw"
    /\ calls < MaxSeqCalls
    /\ n >= clock
    /\ clock' = n
    /\ calls' = calls + 1
    /\ LET r == LockFor(locks[k], k)
           d == SWDecision(SWPruned(state[k], n).q, n)
           st == [has |-> TRUE, q |-> d.q]
       IN  /\ locks' = r.locks
           /\ owner' = r.owner
           /\ state' = [state EXCEPT ![k] = st]
           /\ log' = [log EXCEPT ![k] = Append(@,
                        Entry(n, 1, [allowed |-> d.allowed,
                                     remaining |-> Fin(d.remaining),
                                     retry_after_ms |-> d.retry_after_ms], st))]
    /\ UNCHANGED <<kind, cfg, sha, loaded, locals, guard, hist,
                   fixed>>

SeqNext ==
    \/ \E k \in Keys, w \in Weights, n \in Times : SeqTBCheck(k, w, n)
    \/ \E k \in Keys, n \in Times : SeqSWCheck(k, n)

SeqInit == Start({"tb", "sw"}, SeqTBConfigs, SeqSWConfigs)

SeqSpec == SeqInit /\ [][SeqNext]_vars

\* --------------------------------------------- several processes, one store
\* RedisTokenBucketLimiter instances in separate processes, with the same
\* prefix, on one Redis server that answers every call

ClusterConfigs ==
    {[NoConfig EXCEPT !.capacity = c, !.refill_rate = 0] : c \in {1, 2}}

\* each thread is the one thread of its own process
ClusterInit ==
    /\ kind = "rtb"
    /\ cfg \in ClusterConfigs
    /\ made = "ok"
    /\ proc = [t \in Threads |-> t]
    /\ failure_mode = "fail_open"
    /\ Blank

ClusterNext ==
    \/ \E t \in Threads, k \in Keys, w \in RedisWeights, n \in Times :
            RedisCheck(t, k, w, n)
    \/ \E t \in Threads : RedisScriptLoad(t, "ok")
    \/ \E t \in Threads : RedisEvalsha(t, "ok")
    \/ \E t \in Threads : RedisEval(t, "ok")
    \/ \E t \in Threads : RedisReload(t, "ok")
    \/ \E t \in Threads : RedisReturnCounted(t)
    \/ ScriptFlush

ClusterSpec == ClusterInit /\ [][ClusterNext]_vars

\* ------------------------------------------------ the HTTP application
\* app/main.py: GET /limited, admitted by a RedisTokenBucket (app/limiter.py)

\* the values settings.failure_mode is configured with
ModeStrings == {"fail_open", "fail_closed", "FAIL_CLOSED"}

\* str.lower(), on the strings above
Lower(str) ==
    CASE str = "FAIL_CLOSED" -> "fail_closed"
      [] str = "FAIL_OPEN" -> "fail_open"
      [] OTHER -> str

\* the client addresses requests come from (the keys of their buckets)
Clients == {"a"}

\* the bucket the application is configured with
AppConfigs == {[NoConfig EXCEPT !.capacity = 1, !.refill_rate = 500]}

\* how a call to the Redis client ends in the application: as above, or with
\* an error that is no connection error (redis.exceptions.ResponseError)
AppOutcomes == Outcomes \cup {"ResponseError"}

\* str(n) for n >= 0: the decimal digits of n
RECURSIVE Str(_)
Str(n) == IF n < 10 THEN <<n>> ELSE Str(n \div 10) \o <<n % 10>>

\* retry_after_header_value that rounds down
retry_after_header_floor(ms) ==
    IF ms <= 0 THEN <<>> ELSE Str(Max(1, ms \div 1000))

\* app/limiter.py lines 68-73 (and results.py lines 23-28): None (here <<>>)
\* or the seconds as a string
retry_after_header_value(ms) ==
    IF ms <= 0 THEN <<>> ELSE Str(Max(1, (ms + 999) \div 1000))

\* app/limiter.py lines 89-91, first component
is_redis_available(exc) == exc \in Failures

\* FailureResponse that never lowers the configured mode
FailureResponseExact(exc) ==
    IF is_redis_available(exc) /\ failure_mode = "fail_closed"
        THEN [NoResponse EXCEPT !.status = 429, !.mode = "fail_closed", !.error = exc]
        ELSE [NoResponse EXCEPT !.status = 200, !.mode = "fail_open"]

\* main.py lines 53-70: the response to an exception of limiter.allow
FailureResponse(exc) ==
    IF is_redis_available(exc) /\ Lower(failure_mode) = "fail_closed"
        THEN [NoResponse EXCEPT !.status = 429, !.mode = "fail_closed", !.error = exc]
        ELSE [NoResponse EXCEPT !.status = 200, !.mode = "fail_open"]

\* main.py lines 72-84: the response to a denied result
DeniedResponse(r) ==
    [NoResponse EXCEPT !.status = 429,
                       !.retry_after_ms = r.retry_after_ms,
                       !.retry_after = retry_after_header_value(r.retry_after_ms)]

\* main.py lines 86-87: the response to an allowed result; the header
\* X-RateLimit-Tokens-Left has three decimals, the thousandths kept here
AllowedResponse(r) ==
    [NoResponse EXCEPT !.status = 200, !.tokens_left = r.remaining]

\* main.py lines 51-87: the response limited() builds from what allow did
Response(r) ==
    IF r.mode = "raised" THEN FailureResponse(r.error)
    ELSE IF ~r.allowed THEN DeniedResponse(r)
    ELSE AllowedResponse(r)

\* main.py lines 39-52 and app/limiter.py lines 44-49: a request of client k
\* arrives, limited() calls limiter.allow(key=k, tokens=1), which reads the
\* wall clock
Limited(t, k, n) ==
    /\ kind = "app"
    /\ pc[t] = "idle"
    /\ calls < MaxRedisCalls
    /\ n >= clock
    /\ clock' = n
    /\ calls' = calls + 1
    /\ key' = [key EXCEPT ![t] = k]
    /\ tokens' = [tokens EXCEPT ![t] = 1]
    /\ now' = [now EXCEPT ![t] = n]
    /\ pc' = [pc EXCEPT ![t] = "try"]
    /\ UNCHANGED <<kind, cfg, sha, loaded, lk, stored, res, guard, locks, owner,
                   state, hist, log, path, resp, fixed>>

\* main.py lines 51-87: allow has returned or raised, limited() builds its
\* response
Respond(t) ==
    /\ kind = "app"
    /\ pc[t] \in {"return", "raised"}
    /\ resp' = [resp EXCEPT ![t] = Response(res[t])]
    /\ pc' = [pc EXCEPT ![t] = "respond"]
    /\ UNCHANGED <<kind, cfg, sha, loaded, clock, calls, key, tokens, now, lk, stored,
                   res, guard, locks, owner, state, hist, log, path, fixed>>

\* the response is sent and the request is over
Send(t) ==
    /\ pc[t] = "respond"
    /\ pc' = [pc EXCEPT ![t] = "idle"]
    /\ key' = [key EXCEPT ![t] = "a"]
    /\ tokens' = [tokens EXCEPT ![t] = 1]
    /\ now' = [now EXCEPT ![t] = 0]
    /\ res' = [res EXCEPT ![t] = NoResult]
    /\ path' = [path EXCEPT ![t] = <<>>]
    /\ resp' = [resp EXCEPT ![t] = NoResponse]
    /\ UNCHANGED <<kind, cfg, sha, loaded, clock, calls, lk, stored, guard, locks,
                   owner, state, hist, log, fixed>>

AppInit ==
    /\ kind = "app"
    /\ cfg \in AppConfigs
    /\ made = "ok"
    /\ proc = [t \in Threads |-> 1]
    /\ failure_mode \in ModeStrings
    /\ Blank

AppNext ==
    \/ \E t \in Threads, k \in Clients, n \in Times : Limited(t, k, n)
    \/ \E t \in Threads, out \in AppOutcomes : RedisScriptLoad(t, out)
    \/ \E t \in Threads, out \in AppOutcomes : RedisEvalsha(t, out)
    \/ \E t \in Threads, out \in AppOutcomes : RedisEval(t, out)
    \/ \E t \in Threads, out \in AppOutcomes : RedisReload(t, out)
    \/ ScriptFlush
    \/ \E t \in Threads : Respond(t)
    \/ \E t \in Threads : Send(t)

AppSpec == AppInit /\ [][AppNext]_vars

\* limited() on the results allow can return: allowed with some tokens left,
\* or denied with a wait of up to MaxRetryMs milliseconds
AllowResults ==
    {Result(TRUE, Fin(v), 0, "none", "") : v \in {0, Milli}}
        \cup {Result(FALSE, Fin(0), ms, "none", "") : ms \in 0..MaxRetryMs}

\* app/limiter.py lines 44-65 as limited() sees them: allow returns r
AllowReturns(t, r) ==
    /\ kind = "app"
    /\ pc[t] = "idle"
    /\ calls < MaxRedisCalls
    /\ calls' = calls + 1
    /\ res' = [res EXCEPT ![t] = r]
    /\ pc' = [pc EXCEPT ![t] = "return"]
    /\ UNCHANGED <<kind, cfg, sha, loaded, clock, key, tokens, now, lk, stored, guard,
                   locks, owner, state, hist, log, path, resp, fixed>>

HeaderInit == AppInit

HeaderNext ==
    \/ \E r \in AllowResults : AllowReturns(1, r)
    \/ Respond(1)
    \/ Send(1)

HeaderSpec == HeaderInit /\ [][HeaderNext]_vars

\* ------------------------------------------------------ argument validation
\* the constructors' and check's validation of their arguments, with one
\* caller thread

\* the configurations a caller may pass, valid or not
ArgTBConfigs ==
    {[NoConfig EXCEPT !.capacity = c, !.refill_rate = r]
        : c \in {-1, 0, 1}, r \in {-500, 0, 500}}
ArgSWConfigs ==
    {[NoConfig EXCEPT !.window_size_ms = ws, !.max_requests = m]
        : ws \in {-1, 0, 2}, m \in {-1, 0, 1}}
ArgWeights == {-1, 0, 1}

\* in_memory.py lines 14-17, redis_limiters.py lines 31-34
TBValid(c) == ~(c.capacity <= 0) /\ ~(c.refill_rate < 0)

\* in_memory.py lines 67-70, redis_limiters.py lines 114-117
SWValid(c) == ~(c.window_size_ms <= 0) /\ ~(c.max_requests <= 0)

\* __init__ of the limiter's class: it raises ValueError before it assigns
\* any field, or it builds the object
Construct ==
    /\ made = "no"
    /\ made' = IF (IF kind \in {"tb", "rtb"} THEN TBValid(cfg) ELSE SWValid(cfg))
                  THEN "ok" ELSE "ValueError"
    /\ UNCHANGED <<kind, cfg, sha, loaded, clock, calls, locals, guard, locks, owner,
                   state, hist, log, proc, failure_mode>>

\* CheckRejects that validates tokens only after lock_for(key)
CheckRejectsLate(t, k, w) ==
    /\ kind \in {"tb", "rtb"}
    /\ pc[t] = "idle"
    /\ calls < MaxCalls
    /\ w <= 0
    /\ calls' = calls + 1
    /\ key' = [key EXCEPT ![t] = k]
    /\ tokens' = [tokens EXCEPT ![t] = w]
    /\ res' = [res EXCEPT ![t] = Raised("ValueError")]
    /\ pc' = [pc EXCEPT ![t] = "raised"]
    /\ locks' = LockFor(locks[k], k).locks
    /\ owner' = LockFor(locks[k], k).owner
    /\ UNCHANGED <<kind, cfg, sha, loaded, clock, now, lk, stored, guard,
                   state, hist, log, path, resp, fixed>>

\* check, in_memory.py lines 25-26 and redis_limiters.py lines 53-54:
\* tokens <= 0 raises ValueError
CheckRejects(t, k, w) ==
    /\ kind \in {"tb", "rtb"}
    /\ pc[t] = "idle"
    /\ calls < MaxCalls
    /\ w <= 0
    /\ calls' = calls + 1
    /\ key' = [key EXCEPT ![t] = k]
    /\ tokens' = [tokens EXCEPT ![t] = w]
    /\ res' = [res EXCEPT ![t] = Raised("ValueError")]
    /\ pc' = [pc EXCEPT ![t] = "raised"]
    /\ UNCHANGED <<kind, cfg, sha, loaded, clock, now, lk, stored, guard, locks, owner,
                   state, hist, log, path, resp, fixed>>

\* the ValueError propagates to the caller of an in-process check
Raise(t) ==
    /\ kind \in {"tb", "sw"}
    /\ pc[t] = "raised"
    /\ pc' = [pc EXCEPT ![t] = "idle"]
    /\ key' = [key EXCEPT ![t] = "a"]
    /\ tokens' = [tokens EXCEPT ![t] = 1]
    /\ res' = [res EXCEPT ![t] = NoResult]
    /\ UNCHANGED <<kind, cfg, sha, loaded, clock, calls, now, lk, stored, guard, locks,
                   owner, state, hist, log, path, resp, fixed>>

\* before the constructor runs
ArgInit ==
    /\ kind \in {"tb", "sw", "rtb", "rsw"}
    /\ cfg \in (IF kind \in {"tb", "rtb"} THEN ArgTBConfigs ELSE ArgSWConfigs)
    /\ made = "no"
    /\ proc = [t \in Threads |-> 1]
    /\ failure_mode = "fail_open"
    /\ Blank

\* a method is called only on an object that was built
Built == made = "ok"

ArgNext ==
    \/ Construct
    \/ Built /\ \E k \in Keys, w \in ArgWeights : CheckRejects(1, k, w)
    \/ Built /\ Raise(1)
    \/ Built /\ \E k \in Keys, w \in ArgWeights, n \in Times : TBCheck(1, k, w, n)
    \/ Built /\ \E k \in Keys, n \in Times : SWCheck(1, k, n)
    \/ Built /\ LockForEnter(1)
    \/ Built /\ LockForReturn(1)
    \/ Built /\ TBEnter(1)
    \/ Built /\ TBDecide(1)
    \/ Built /\ SWEnter(1)
    \/ Built /\ SWDecide(1)
    \/ Built /\ Release(1)
    \/ Built /\ \E k \in Keys, w \in ArgWeights, n \in Times : RedisCheck(1, k, w, n)
    \/ Built /\ \E out \in Outcomes : RedisScriptLoad(1, out)
    \/ Built /\ \E out \in Outcomes : RedisEvalsha(1, out)
    \/ Built /\ \E out \in Outcomes : RedisEval(1, out)
    \/ Built /\ \E out \in Outcomes : RedisReload(1, out)
    \/ Built /\ RedisReturn(1)
    \/ Built /\ ScriptFlush

ArgSpec == ArgInit /\ [][ArgNext]_vars

\* ------------------------------------------------------------------ claims
\* thread t's check has its result: an in-process check about to leave the
\* with block, a Redis check about to return
Returning(t) == pc[t] \in {"release", "return"}

\* C1: with refill_rate 0 and capacity N, of the M weight-1 checks decided on a
\* key so far, in whatever interleaving, exactly min(M, N) were allowed.
C1_BurstAdmitsExactlyCapacity ==
    (kind = "tb" /\ cfg.refill_rate = 0) =>
        \A k \in Keys : hist[k].unit => hist[k].ok = Min(hist[k].n, cfg.capacity)

C1_Witness ==
    /\ kind = "tb" /\ cfg.refill_rate = 0
    /\ \E k \in Keys : hist[k].unit /\ hist[k].n > cfg.capacity
                        /\ hist[k].ok = cfg.capacity

\* C2: at the end of each sliding-window decision the key's stored timestamps
\* number at most max_requests and all lie in (now - window_size_ms, now].
C2_StoredTimestampsInWindow ==
    kind = "sw" =>
        \A t \in Threads : Returning(t) =>
            LET q == state[key[t]].q
            IN  /\ Len(q) <= cfg.max_requests
                /\ \A i \in 1..Len(q) :
                      now[t] - cfg.window_size_ms < q[i] /\ q[i] <= now[t]

\* C3: in the order in which the checks on one key take the key's lock, the
\* now values they decide with never decrease.
C3_NowsNonDecreasingInLockOrder ==
    [][\A t \in Threads :
          (pc[t] = "decide" /\ pc'[t] = "release" /\ hist[key[t]].n > 0)
              => now[t] >= hist[key[t]].last_now]_vars

\* C6: every in-process result has 0 <= remaining <= capacity (token bucket,
\* in thousandths) or 0 <= remaining <= max_requests (sliding window), and a
\* stored token count is always within [0, capacity].
C6_RemainingWithinBounds ==
    /\ kind = "tb" =>
          /\ \A t \in Threads : Returning(t) =>
                /\ ~res[t].remaining.inf
                /\ 0 <= res[t].remaining.v
                /\ res[t].remaining.v <= cfg.capacity * Milli
          /\ \A k \in Keys : state[k].has =>
                0 <= state[k].tokens /\ state[k].tokens <= cfg.capacity * Milli
    /\ kind = "sw" =>
          \A t \in Threads : Returning(t) =>
                /\ ~res[t].remaining.inf
                /\ 0 <= res[t].remaining.v
                /\ res[t].remaining.v <= cfg.max_requests

C6_Witness ==
    /\ kind = "tb" /\ cfg.refill_rate > 0
    /\ \E t \in Threads :
          /\ Returning(t)
          /\ hist[key[t]].n > 1
          /\ res[t].remaining.v = cfg.capacity * Milli

\* C7: every result has retry_after_ms >= 0, and retry_after_ms = 0 when it
\* is allowed.
C7_RetryAfterNonNegative ==
    \A t \in Threads :
        (Returning(t) /\ (kind \in {"tb", "sw"} \/ res[t].mode # "none")) =>
            /\ res[t].retry_after_ms >= 0
            /\ res[t].allowed => res[t].retry_after_ms = 0

C7_Witness ==
    \E t \in Threads : Returning(t) /\ ~res[t].allowed /\ res[t].retry_after_ms > 0

\* a check ended after one of its calls to Redis failed
Failed(t) == pc[t] \in {"return", "raised"} /\ res[t].error \in Failures

\* C10: when a call to the store made by a Redis limiter's check fails with
\* a connect failure or a timeout, check returns the result the fail_open
\* flag chooses: allowed, +infinity, 0, mode fail_open, or denied, 0, 0, mode
\* fail_closed.
C10_FailureReturnsPolicyResult ==
    \A t \in Threads : Failed(t) =>
        /\ pc[t] = "return"
        /\ res[t].allowed = cfg.fail_open
        /\ res[t].remaining = (IF cfg.fail_open THEN Inf ELSE Fin(0))
        /\ res[t].retry_after_ms = 0
        /\ res[t].mode = (IF cfg.fail_open THEN "fail_open" ELSE "fail_closed")

\* C9: every denied sliding-window check returns retry_after_ms within
\* [0, window_size_ms].
C9_DeniedRetryWithinWindow ==
    kind = "sw" =>
        \A t \in Threads : (Returning(t) /\ ~res[t].allowed) =>
            /\ 0 <= res[t].retry_after_ms
            /\ res[t].retry_after_ms <= cfg.window_size_ms

\* the allowed calls before the i-th on key k whose timestamp lies in the
\* i-th call's window (now - window_size_ms, now]
Counted(k, i) ==
    {j \in 1..(i - 1) :
        /\ log[k][j].allowed
        /\ log[k][i].now - cfg.window_size_ms < log[k][j].now
        /\ log[k][j].now <= log[k][i].now}

\* the smallest element of a non-empty set of numbers
Least(S) == CHOOSE x \in S : \A y \in S : x <= y

\* C4: in non-overlapping sliding-window calls a call is allowed iff fewer
\* than max_requests earlier allowed calls on the key have a timestamp in
\* (now - window_size_ms, now]; and the call next after a denied one is
\* allowed when window_size_ms has passed since the denied call's oldest
\* counted request.
C4_AllowedIffWindowNotFull ==
    kind = "sw" =>
        \A k \in Keys : \A i \in 1..Len(log[k]) :
            /\ log[k][i].allowed <=> Cardinality(Counted(k, i)) < cfg.max_requests
            /\ (i > 1 /\ ~log[k][i - 1].allowed
                  /\ log[k][i].now >=
                        Least({log[k][j].now : j \in Counted(k, i - 1)})
                            + cfg.window_size_ms)
                => log[k][i].allowed

C4_Witness ==
    /\ kind = "sw"
    /\ \E k \in Keys :
          /\ Len(log[k]) = 3
          /\ log[k][1].allowed /\ ~log[k][2].allowed /\ log[k][3].allowed
          /\ log[k][3].now = log[k][1].now + cfg.window_size_ms

\* the reference token bucket, in thousandths of a token: what the i-th call
\* on key k finds after the refill, and what it leaves
RECURSIVE RefLeft(_, _)
RefFound(k, i) ==
    IF i = 1
        THEN cfg.capacity * Milli
        ELSE Min(cfg.capacity * Milli,
                 RefLeft(k, i - 1)
                    + (log[k][i].now - log[k][i - 1].now) * cfg.refill_rate)
RefLeft(k, i) ==
    IF RefFound(k, i) >= log[k][i].tokens * Milli
        THEN RefFound(k, i) - log[k][i].tokens * Milli
        ELSE RefFound(k, i)

\* C5: in non-overlapping token-bucket calls every result equals the
\* reference bucket's: allowed iff the refilled count is >= the weight,
\* remaining the count left; and an emptied bucket allows a weight-1 call
\* made at least 1/refill_rate seconds later.
C5_MatchesReferenceBucket ==
    kind = "tb" =>
        \A k \in Keys : \A i \in 1..Len(log[k]) :
            /\ log[k][i].allowed <=> RefFound(k, i) >= log[k][i].tokens * Milli
            /\ log[k][i].remaining = Fin(RefLeft(k, i))
            /\ (i > 1 /\ log[k][i - 1].remaining = Fin(0)
                  /\ log[k][i].tokens = 1
                  /\ (log[k][i].now - log[k][i - 1].now) * cfg.refill_rate >= Milli)
                => log[k][i].allowed

C5_Witness ==
    /\ kind = "tb" /\ cfg.refill_rate > 0
    /\ \E k \in Keys :
          /\ Len(log[k]) = 3
          /\ log[k][1].allowed /\ log[k][1].remaining = Fin(0)
          /\ ~log[k][2].allowed /\ log[k][2].remaining.v > 0
          /\ log[k][3].allowed

\* the bucket a call at n finds stored for a key, before the refill
Found(st, n) ==
    IF st.has THEN st ELSE [has |-> TRUE, tokens |-> cfg.capacity * Milli, ts |-> n]

Triple(e) == <<e.allowed, e.remaining, e.retry_after_ms>>

\* C8: a denied token-bucket check stores the refilled token count
\* min(capacity, tokens + elapsed * refill_rate) and changes nothing else;
\* a denied check that follows a denied check on the same key with the same
\* weight and the same now returns the same triple and leaves the same state.
C8_DeniedCheckDeductsNothing ==
    [][\A k \in Keys :
          (kind = "tb" /\ Len(log'[k]) = Len(log[k]) + 1
                /\ ~log'[k][Len(log'[k])].allowed) =>
            LET e == log'[k][Len(log'[k])]
                pre == Found(state[k], e.now)
            IN  /\ state'[k].tokens =
                      Min(cfg.capacity * Milli,
                          pre.tokens + Max(0, e.now - pre.ts) * cfg.refill_rate)
                /\ state'[k].ts \in {pre.ts, e.now}
                /\ \A o \in Keys \ {k} : state'[o] = state[o]
                /\ (Len(log[k]) > 0
                      /\ ~log[k][Len(log[k])].allowed
                      /\ log[k][Len(log[k])].tokens = e.tokens
                      /\ log[k][Len(log[k])].now = e.now)
                    => /\ Triple(e) = Triple(log[k][Len(log[k])])
                       /\ state'[k] = state[k]]_vars

C8_Witness ==
    /\ kind = "tb"
    /\ \E k \in Keys : \E i \in 2..Len(log[k]) :
          /\ ~log[k][i].allowed /\ ~log[k][i - 1].allowed
          /\ log[k][i].tokens = log[k][i - 1].tokens
          /\ log[k][i].now = log[k][i - 1].now
          /\ log[k][i].retry_after_ms > 0
          /\ log[k][i - 1].st.ts # log[k][1].now

\* thread t's check is about to return a decision of the script
Decided(t) == pc[t] = "return" /\ res[t].mode = "none"

\* the runs of the script that thread t's check has caused
Runs(t) == SelectSeq(path[t], LAMBDA e : e.call \in {"evalsha", "eval"} /\ e.out = "ok")

\* thread t's evalsha was answered NoScriptError
Fell(t) == \E i \in 1..Len(path[t]) : path[t][i].out = "NoScriptError"

\* C11: no ConnectionError or TimeoutError of a call to Redis leaves a Redis
\* limiter's check as an exception, whichever call raised it.
C11_NoErrorEscapesCheck ==
    \A t \in Threads :
        (kind \in {"rtb", "rsw"} /\ res[t].error \in Failures) => pc[t] # "raised"

\* C12: a check that returns a decision has run the script exactly once and
\* returns that run's decision; when its evalsha was answered NoScriptError it
\* has then called eval once and script_load after it, so the digest is
\* cached before it returns; and the evalsha that is answered NoScriptError
\* leaves every key's state as it was.
C12_FallbackRunsScriptOnce ==
    /\ [](\A t \in Threads : Decided(t) =>
            /\ Len(Runs(t)) = 1
            /\ res[t] = Runs(t)[1].reply
            /\ sha[proc[t]]
            /\ Fell(t) =>
                  path[t] = <<Call("evalsha", "NoScriptError", NoResult),
                              Call("eval", "ok", res[t]),
                              Call("script_load", "ok", NoResult)>>)
    /\ [][\A t \in Threads :
            (Len(path'[t]) = Len(path[t]) + 1
                /\ path'[t][Len(path'[t])].out = "NoScriptError")
              => state' = state]_vars

C12_Witness ==
    \E t \in Threads : Decided(t) /\ Fell(t) /\ res[t].allowed

\* lock_for has returned thread t the lock of its key
HasLock(t) == pc[t] \in {"acquire", "decide", "release"}

\* thread t is inside the with block of its key's lock
Inside(t) == pc[t] \in {"decide", "release"}

\* C13: lock_for returns the same lock for a key on every call, also when the
\* first calls for the key run concurrently: every thread that lock_for has
\* returned to holds the lock the registry maps its key to, a key's lock
\* is never replaced, and no two threads are inside the with block of one key.
C13_OneLockPerKey ==
    /\ [](/\ \A t \in Threads : HasLock(t) =>
                lk[t] # NoLock /\ lk[t] = locks[key[t]]
          /\ \A t \in Threads : Inside(t) => owner[lk[t]] = t
          /\ \A t, u \in Threads :
                (t # u /\ Inside(t) /\ Inside(u)) => key[t] # key[u])
    /\ [][\A k \in Keys : locks[k] # NoLock => locks'[k] = locks[k]]_vars

C13_Witness ==
    \E t, u \in Threads :
        /\ t # u /\ key[t] = key[u]
        /\ hist[key[t]].n = 0
        /\ Inside(t) /\ pc[u] = "acquire"
        /\ lk[t] = lk[u]

\* C14: the guard is held only inside lock_for, never by a thread that waits
\* for or holds a key's lock; and a thread that cannot take its key's lock
\* is kept out by a thread inside the with block of the same key, never by
\* a check on another key.
C14_KeysNeverBlockEachOther ==
    /\ \A t \in Threads : guard = t => pc[t] = "in_guard"
    /\ \A t \in Threads :
          (pc[t] = "acquire" /\ owner[lk[t]] # NoThread) =>
              \E u \in Threads \ {t} :
                  key[u] = key[t] /\ Inside(u) /\ owner[lk[t]] = u

C14_Witness ==
    \E t, u \in Threads : key[t] # key[u] /\ Inside(t) /\ Inside(u)

\* limited() has built its response to an exception exc of allow
Failing(t) == pc[t] = "respond" /\ res[t].mode = "raised"

\* C15: an exception of limiter.allow that is neither a ConnectionError nor a
\* TimeoutError is answered with status 500, whatever the failure mode.
C15_OtherErrorsAnswered500 ==
    \A t \in Threads :
        (Failing(t) /\ res[t].error \notin Failures) => resp[t].status = 500

\* the configured values that mean fail_closed
ClosedModes == {"fail_closed", "FAIL_CLOSED"}

\* C16: a ConnectionError or TimeoutError of limiter.allow is answered by the
\* failure mode alone: fail_closed gives status 429 with mode fail_closed and
\* the error string, fail_open gives a success with mode fail_open.
C16_FailureModeDecidesResponse ==
    \A t \in Threads :
        (Failing(t) /\ res[t].error \in Failures) =>
            IF failure_mode \in ClosedModes
                THEN /\ resp[t].status = 429
                     /\ resp[t].mode = "fail_closed"
                     /\ resp[t].error = res[t].error
                ELSE /\ resp[t].status = 200
                     /\ resp[t].mode = "fail_open"

C16_Witness ==
    \E t \in Threads :
        /\ Failing(t) /\ res[t].error = "TimeoutError"
        /\ failure_mode = "FAIL_CLOSED"
        /\ resp[t].status = 429

\* the number a string of decimal digits denotes
RECURSIVE Num(_)
Num(d) == IF d = <<>> THEN 0 ELSE Num(SubSeq(d, 1, Len(d) - 1)) * 10 + d[Len(d)]

\* C17: a denied result is answered with status 429 carrying retry_after_ms,
\* with a Retry-After header iff retry_after_ms > 0, whose value is
\* ceil(retry_after_ms / 1000) seconds and at least 1.
C17_RetryAfterHeaderCeiling ==
    \A t \in Threads :
        (pc[t] = "respond" /\ res[t].mode = "none" /\ ~res[t].allowed) =>
            LET ms == res[t].retry_after_ms
                h == resp[t].retry_after
            IN  /\ resp[t].status = 429
                /\ resp[t].retry_after_ms = ms
                /\ (h # <<>>) <=> (ms > 0)
                /\ ms > 0 => (Num(h) = CeilDiv(ms, 1000) /\ Num(h) >= 1)
                /\ ms = 1200 => h = <<2>>
                /\ ms = 1 => h = <<1>>
                /\ ms = 1000 => h = <<1>>
                /\ ms = 1001 => h = <<2>>

C17_Witness ==
    \E t \in Threads :
        /\ pc[t] = "respond" /\ ~res[t].allowed
        /\ res[t].retry_after_ms = 1001
        /\ resp[t].retry_after = <<2>>

\* the configuration the limiter is constructed with is not acceptable
Invalid ==
    IF kind \in {"tb", "rtb"}
        THEN cfg.capacity <= 0 \/ cfg.refill_rate < 0
        ELSE cfg.window_size_ms <= 0 \/ cfg.max_requests <= 0

\* C18: a constructor fails exactly on capacity <= 0 or refill_rate < 0
\* (token bucket), window_size_ms <= 0 or max_requests <= 0 (sliding window),
\* and then nothing is ever stored; a check with tokens <= 0 raises, is never
\* processed, and the step in which it raises leaves the stored state of every
\* key and the lock registry as they were.
C18_InvalidInputsRejected ==
    /\ [](/\ made # "no" => (made = "ValueError" <=> Invalid)
          /\ made # "ok" =>
                /\ calls = 0
                /\ \A k \in Keys : state[k] = Absent /\ locks[k] = NoLock
                /\ owner = <<>>
          /\ \A t \in Threads : tokens[t] <= 0 =>
                pc[t] = "raised" /\ res[t] = Raised("ValueError"))
    /\ [][\A t \in Threads :
            (pc[t] = "idle" /\ pc'[t] = "raised" /\ res'[t].error = "ValueError") =>
                /\ state' = state
                /\ locks' = locks
                /\ owner' = owner
                /\ guard' = guard
                /\ sha' = sha /\ loaded' = loaded]_vars

C18_Witness ==
    \E t \in Threads :
        /\ kind = "tb"
        /\ pc[t] = "raised" /\ tokens[t] <= 0
        /\ state[key[t]] # Absent /\ locks[key[t]] # NoLock

\* the threads whose check on key k has had the script run and not yet returned
Ran(k) == {t \in Threads : pc[t] # "idle" /\ key[t] = k /\ Runs(t) # <<>>}

\* C19: processes sharing one reachable store, capacity N, refill_rate 0: of
\* the M check(key, 1) calls on a key that the script has decided so far
\* (returned or about to return), whatever the interleaving and whichever
\* calls went through the NoScriptError fallback, exactly min(M, N) are
\* allowed.
C19_SharedBurstAdmitsExactlyCapacity ==
    \A k \in Keys :
        (hist[k].unit /\ \A t \in Ran(k) : tokens[t] = 1) =>
            hist[k].ok + Cardinality({t \in Ran(k) : res[t].allowed})
                = Min(hist[k].n + Cardinality(Ran(k)), cfg.capacity)

C19_Witness ==
    \E t, u \in Threads :
        /\ proc[t] # proc[u]
        /\ key[t] = key[u]
        /\ tokens[t] = 1 /\ tokens[u] = 1
        /\ Decided(t) /\ Fell(t) /\ ~res[t].allowed
        /\ Decided(u) /\ res[u].allowed
        /\ hist[key[t]].n = cfg.capacity - 1

\* the allowed calls on key k whose now_ms lies in the interval (t - W, t]
InWindow(k, t) ==
    {i \in 1..Len(log[k]) :
        log[k][i] > t - cfg.window_size_ms /\ log[k][i] <= t}

\* C20: SlidingWindowLimiter, concurrent calls on one key: with each allowed
\* call's own now_ms as its timestamp, no interval (t - window_size_ms, t]
\* contains the timestamps of more than max_requests allowed calls.
C20_AllowedWithinQuotaPerWindow ==
    \A k \in WindowKeys, t \in Times :
        Cardinality(InWindow(k, t)) <= cfg.max_requests

\* the sum of the weights of the allowed calls of a key's log, in thousandths
RECURSIVE Spent(_)
Spent(l) ==
    IF l = <<>> THEN 0
    ELSE (IF Head(l).allowed THEN Head(l).tokens * Milli ELSE 0) + Spent(Tail(l))

\* the now values of the calls of a key's log
Nows(l) == {l[i].now : i \in 1..Len(l)}

\* the largest distance between two now values of a key's log
Span(l) == CHOOSE d \in 0..MaxNow + 1 :
                /\ \E a, b \in Nows(l) : d = a - b
                /\ \A a, b \in Nows(l) : a - b <= d

\* C21: TokenBucketLimiter, a key, any interleaving, any weights: the
\* weights of the allowed calls sum to at most capacity + refill_rate * (the
\* largest now used on the key - the smallest now used on the key), also
\* when a call with an older now takes the key's lock after a newer one.
C21_NoIntervalCreditedTwice ==
    \A k \in BucketKeys :
        log[k] # <<>> =>
            Spent(log[k]) <= cfg.capacity * Milli + cfg.refill_rate * Span(log[k])

C21_Witness ==
    \E k \in BucketKeys : \E i, j \in 1..Len(log[k]) :
        /\ i < j
        /\ log[k][i].now > log[k][j].now
        /\ log[k][i].allowed /\ log[k][j].allowed
        /\ cfg.refill_rate > 0

\* C22: TokenBucketLimiter: when check(key, w) is denied with
\* retry_after_ms = r > 0, the check(key, w) made r milliseconds later, with no
\* other call on the key in between, is allowed; so a positive retry_after_ms
\* is never given to a request that cannot succeed at this bucket.
C22_RetryAfterLeadsToAdmission ==
    kind = "tb" =>
        \A k \in Keys : \A i \in 1..Len(log[k]) :
            LET e == log[k][i]
            IN  (~e.allowed /\ e.retry_after_ms > 0) =>
                    TBCompute(e.st, e.now + e.retry_after_ms, e.tokens).allowed

\* the decision of a SlidingWindowLimiter check at time n on the key state st
SWAt(st, n) == SWDecision(SWPruned(st, n).q, n)

\* C23: SlidingWindowLimiter, calls that do not overlap, at non-decreasing
\* clock values: a denied check returns retry_after_ms = r >= 1; the check
\* on the same key made r milliseconds later, with no other call in between,
\* is allowed, and one made fewer than r milliseconds later is denied.
C23_WindowRetryAfterIsExact ==
    kind = "sw" =>
        \A k \in Keys : \A i \in 1..Len(log[k]) :
            LET e == log[k][i]
            IN  ~e.allowed =>
                    /\ e.retry_after_ms >= 1
                    /\ SWAt(e.st, e.now + e.retry_after_ms).allowed
                    /\ \A d \in 0..(e.retry_after_ms - 1) :
                            ~SWAt(e.st, e.now + d).allowed

C23_Witness ==
    /\ kind = "sw"
    /\ \E k \in Keys : \E i \in 1..Len(log[k]) - 1 :
            /\ ~log[k][i].allowed
            /\ log[k][i].retry_after_ms > 1
            /\ log[k][i + 1].now = log[k][i].now + log[k][i].retry_after_ms
            /\ log[k][i + 1].allowed

\* the entries of the deque q after the cutoff
After(q, cutoff) == SelectSeq(q, LAMBDA x : x > cutoff)

\* the deque of key k, empty when the key has none
Deque(k) == IF state[k].has THEN state[k].q ELSE <<>>

\* C24: SlidingWindowLimiter: a check that is denied leaves the key's deque
\* as it was minus the entries at or before the cutoff (its prune removes
\* exactly those and its decision adds nothing), while an allowed check
\* appends exactly one timestamp, its now_ms.
C24_DeniedCheckRecordsNothing ==
    [][\A t \in Threads :
        /\ (/\ kind = "sw" /\ pc[t] = "acquire" /\ pc'[t] = "decide"
            /\ ~SWDecision(state'[key[t]].q, now[t]).allowed) =>
                state'[key[t]].q =
                    After(Deque(key[t]), now[t] - cfg.window_size_ms)
        /\ (kind = "sw" /\ pc[t] = "decide" /\ pc'[t] = "release") =>
                state'[key[t]].q =
                    IF res'[t].allowed
                        THEN Append(Deque(key[t]), now[t])
                        ELSE Deque(key[t])]_vars

\* the key locks that thread t holds
Held(t) == {l \in 1..Len(owner) : owner[l] = t}

\* C25: in-process limiters, threads calling check on any keys, fair
\* scheduling: every call that has started returns; while a call is running
\* some thread can take a step; a key's lock is held only by a thread
\* inside the with block of that key's state update and by no thread that
\* has returned; and the thread in the registry's guard holds no key lock.
C25_EveryCallReturns ==
    /\ [](/\ (\E t \in Threads : pc[t] # "idle") =>
                \E t \in Threads : ENABLED Step(t)
          /\ \A t \in Threads :
                Held(t) = IF Inside(t) THEN {lk[t]} ELSE {}
          /\ \A t \in Threads : guard = t => Held(t) = {})
    /\ \A t \in Threads : (pc[t] # "idle") ~> (pc[t] = "idle")

C25_Witness ==
    \E t, u \in Threads :
        /\ t # u
        /\ pc[t] = "acquire" /\ Inside(u)
        /\ lk[t] = lk[u]
        /\ ~res[u].allowed /\ pc[u] = "release"
        /\ calls = MaxLiveCalls

====
